---- MODULE Spec2Model ----
(***************************************************************************)
(* Rate-limited message dispatch engine of Vaxity1/Aether.                 *)
(*                                                                         *)
(*   - DiscordRateLimiter (src/main.py) as operators over a limiter record *)
(*   - DiscordAutoSender of src/main.py: start/stop/pause/resume/cancel,   *)
(*     the send_messages loop and the threading.Timer schedulers           *)
(*   - the HH:MM schedulers of "src/Working Versions/main - Copy.py" and   *)
(*     src/heal_md_enhanced_bridge.py                                      *)
(*                                                                         *)
(* All durations and timestamps are in milliseconds. Floats of the source  *)
(* (0.5 s, 1.0 s, 30.0 s, x0.9, x2.0) are fixed-point millisecond values.  *)
(***************************************************************************)
EXTENDS Integers, Sequences, FiniteSets, TLC

(***************************************************************************)
(* Program constants of DiscordRateLimiter.__init__ (milliseconds).        *)
(***************************************************************************)
burst_threshold == 5
burst_window == 10000
rate_limit == 500
initial_exponential_delay == 1000
max_delay == 30000
\* the literal 0.5 of register_message_sent
success_delay_floor == 500
\* the literal 0.1 of get_recommended_delay
min_recommended_delay == 100

\* get_delay() of src/main.py: 1.0 s between the messages of a batch
send_delay == 1000
\* askinteger(minvalue=1): the shortest timer delay, in seconds
min_schedule_delay == 1

(***************************************************************************)
(* Bounds of the model.                                                    *)
(***************************************************************************)
\* application specification: last clock value, threads ever started,
\* messages per batch, longest timer delay in seconds
MaxTime == 2000
MaxThreads == 2
MaxBatch == 2
MaxScheduleDelay == 1
\* HH:MM schedulers: longest text entered as a time, scheduling calls
MaxStrLen == 4
MaxScheduleCalls == 1
\* fire specification: calls of schedule_message, and threads (each call
\* starts a waiting thread, which starts a sending thread)
MaxFireCalls == 2
MaxFireThreads == 4
\* interleaving specification: threads calling the limiter, last clock value
MaxRaceThreads == 2
MaxRaceTime == 500
\* burst specification: last clock value
MaxBurstTime == 8000
\* burst specification with timers: last time reached, ms
MaxBurstTimersTime == 4000
\* zzdiscord_auto_gui.py: calls of start_sending
MaxStarts == 3
\* largest counter value in an imported settings file
MaxImported == 1
\* send_message_advanced: largest retry_attempts, longest message
MaxAttempts == 3
MaxMessageLen == 2
\* limiter specification: number of clock advances, sends and hits
MaxClockSteps == 2
MaxSent == 6
MaxHits == 1
\* backoff specification: number of clock advances, sends and hits
MaxBackoffClockSteps == 1
MaxBackoffSent == 7
MaxBackoffHits == 6

Max(a, b) == IF a >= b THEN a ELSE b
Min(a, b) == IF a <= b THEN a ELSE b
Last(s) == s[Len(s)]

VARIABLES
    now,            \* time.time(), milliseconds
    rl,             \* the DiscordRateLimiter instance
    last_call,      \* limiter specification: the last limiter call and its result
    clock_steps,    \* limiter specification: number of clock advances so far
    is_sending,         \* DiscordAutoSender.is_sending
    queue_paused,       \* DiscordAutoSender.queue_paused
    analytics_data,     \* DiscordAutoSender.analytics_data: sent, errors
    scheduled_messages, \* DiscordAutoSender.scheduled_messages
    threads,        \* the threading.Thread / threading.Timer objects started so far
    msg_count,      \* number of message texts handed over so far; a text is its number
    sent_log,       \* history: the messages sent, in order, with the sending thread
    hist,           \* history: cancel / stop / pause bookkeeping
    variant,        \* HH:MM schedulers: which program runs, "copy" or "bridge"
    wall,           \* HH:MM schedulers: datetime.now()
    message_entry,  \* HH:MM schedulers: the lines of the message_entry text box
    status,         \* HH:MM schedulers: status_var / the last error dialog
    sched_calls,    \* HH:MM schedulers: number of scheduling calls so far
    last_sched,     \* history: the last scheduling call, its input and outcome
    tx,             \* send_message_advanced: the call in progress and its attempts
    zz,             \* zzdiscord_auto_gui.py: the sender and its send_messages thread
    race            \* interleaving specification: the threads inside the limiter's methods

limiterVars == <<last_call, clock_steps>>
appVars == <<is_sending, queue_paused, analytics_data, scheduled_messages,
             threads, msg_count, sent_log>>
hhVars == <<variant, wall, message_entry, status, sched_calls, last_sched>>
\* the variables of the other programs of the repository
sideVars == <<tx, zz, race>>
vars == <<now, rl, last_call, clock_steps, is_sending, queue_paused,
          analytics_data, scheduled_messages, threads, msg_count, sent_log, hist,
          variant, wall, message_entry, status, sched_calls, last_sched, tx, zz, race>>

(***************************************************************************)
(* DiscordRateLimiter                                                      *)
(***************************************************************************)
NewRateLimiter ==
    [ message_history   |-> <<>>,
      exponential_delay |-> initial_exponential_delay,
      total_processed   |-> 0,
      rate_limit_hits   |-> 0,
      last_burst_time   |-> 0 ]

\* the window test with the boundary included (now - t <= burst_window)
RecentHistoryInclusive(h, t) == SelectSeq(h, LAMBDA x : t - x <= burst_window)

\* the list comprehension of can_send_message / get_queue_status
RecentHistory(h, t) == SelectSeq(h, LAMBDA x : t - x < burst_window)

\* can_send_message deciding on the recent entries without storing them
can_send_message_unpruned(l, t) ==
    LET pruned == RecentHistory(l.message_history, t)
    IN  IF Len(pruned) >= burst_threshold
        THEN [ result |-> FALSE, limiter |-> [l EXCEPT !.last_burst_time = t] ]
        ELSE IF pruned /= <<>> /\ (t - Last(pruned)) < rate_limit
        THEN [ result |-> FALSE, limiter |-> l ]
        ELSE [ result |-> TRUE, limiter |-> l ]

\* can_send_message at time t: the result and the limiter after the call
can_send_message(l, t) ==
    LET pruned == RecentHistory(l.message_history, t)
        l1 == [l EXCEPT !.message_history = pruned]
    IN  IF Len(pruned) >= burst_threshold
        THEN [ result |-> FALSE, limiter |-> [l1 EXCEPT !.last_burst_time = t] ]
        ELSE IF pruned /= <<>> /\ (t - Last(pruned)) < rate_limit
        THEN [ result |-> FALSE, limiter |-> l1 ]
        ELSE [ result |-> TRUE, limiter |-> l1 ]

\* exponential_delay * 0.9, fixed point
DecayedDelay(d) == (d * 9) \div 10

\* register_message_sent without the max(0.5, ...) clamp
register_message_sent_unclamped(l, t) ==
    [l EXCEPT !.message_history = Append(@, t),
              !.total_processed = @ + 1,
              !.exponential_delay = DecayedDelay(@)]

register_message_sent(l, t) ==
    [l EXCEPT !.message_history = Append(@, t),
              !.total_processed = @ + 1,
              !.exponential_delay = Max(success_delay_floor, DecayedDelay(@))]

\* register_rate_limit_hit multiplying by 3.0
register_rate_limit_hit_tripled(l) ==
    [l EXCEPT !.rate_limit_hits = @ + 1,
              !.exponential_delay = Min(max_delay, @ * 3)]

register_rate_limit_hit(l) ==
    [l EXCEPT !.rate_limit_hits = @ + 1,
              !.exponential_delay = Min(max_delay, @ * 2)]

\* get_recommended_delay returning exponential_delay in both cases
get_recommended_delay_backoff_only(l, t) ==
    LET cs == can_send_message(l, t)
    IN  [ result  |-> cs.limiter.exponential_delay,
          limiter |-> cs.limiter ]

get_recommended_delay(l, t) ==
    LET cs == can_send_message(l, t)
    IN  [ result  |-> IF ~cs.result
                      THEN cs.limiter.exponential_delay
                      ELSE Max(rate_limit, min_recommended_delay),
          limiter |-> cs.limiter ]

\* get_queue_status counting a rate limit hit when the limiter cannot send
get_queue_status_counting(l, t) ==
    LET recent == Len(RecentHistory(l.message_history, t))
        cs == can_send_message(l, t)
        rd == get_recommended_delay(cs.limiter, t)
    IN  [ result  |-> [ can_send          |-> cs.result,
                        recent_messages   |-> recent,
                        burst_threshold   |-> burst_threshold,
                        recommended_delay |-> rd.result,
                        total_processed   |-> rd.limiter.total_processed,
                        rate_limit_hits   |-> rd.limiter.rate_limit_hits,
                        exponential_delay |-> rd.limiter.exponential_delay ],
          limiter |-> IF cs.result THEN rd.limiter
                      ELSE register_rate_limit_hit(rd.limiter) ]

get_queue_status(l, t) ==
    LET recent == Len(RecentHistory(l.message_history, t))
        cs == can_send_message(l, t)
        rd == get_recommended_delay(cs.limiter, t)
    IN  [ result  |-> [ can_send          |-> cs.result,
                        recent_messages   |-> recent,
                        burst_threshold   |-> burst_threshold,
                        recommended_delay |-> rd.result,
                        total_processed   |-> rd.limiter.total_processed,
                        rate_limit_hits   |-> rd.limiter.rate_limit_hits,
                        exponential_delay |-> rd.limiter.exponential_delay ],
          limiter |-> rd.limiter ]

(***************************************************************************)
(* Limiter specification: one DiscordRateLimiter driven by arbitrary calls *)
(* at arbitrary times.                                                     *)
(***************************************************************************)
NoCall == [ op |-> "none", at |-> 0, before |-> NewRateLimiter, result |-> FALSE ]

\* the clock advances between calls by one of these amounts
ElapseSteps == { rate_limit, burst_window - rate_limit, burst_window }

NoHist ==
    [ cancelled |-> FALSE, inflight_at_cancel |-> {},
      pause_state |-> "never", paused_pending |-> <<>>,
      stopped |-> FALSE, sent_at_stop |-> 0 ]

NoDate == [ year |-> 0, month |-> 1, day |-> 1, hour |-> 0, minute |-> 0, second |-> 0 ]
\* no call of an HH:MM scheduler yet: the text entered and the error dialog shown
NoSched == [ op |-> "none", answered |-> FALSE, time_str |-> <<>>, showerror |-> "", raised |-> "" ]

\* the HH:MM scheduler state, as it stays in the specifications of src/main.py
IdleScheduler ==
    /\ variant = "main"
    /\ wall = NoDate
    /\ message_entry = <<>>
    /\ status = "Idle."
    /\ sched_calls = 0
    /\ last_sched = NoSched

\* no call of send_message_advanced
NoCallAdvanced ==
    [ program |-> "none", pc |-> "idle", max_attempts |-> 0, message |-> 0,
      attempt |-> 0, typed |-> 0, outcomes |-> <<>>, result |-> "none",
      logged |-> 0, pauses |-> 0, target |-> <<>>, enters |-> 0,
      cancelled |-> FALSE ]

\* the other programs, as they stay in the specifications of one program
\* DiscordAutoSender.__init__ of zzdiscord_auto_gui.py, no thread started;
\* attempts is the history of the messages tried by the running thread
NewAutoGui ==
    [ is_sending |-> FALSE, errors |-> 0, pc |-> "none", messages |-> 0,
      idx |-> 1, sent |-> 0, attempts |-> <<>>, starts |-> 0 ]

\* no thread inside the limiter
NoRace == [ thr |-> <<>>, done_sent |-> 0, done_hits |-> 0 ]

IdleSide == tx = NoCallAdvanced /\ zz = NewAutoGui /\ race = NoRace

\* DiscordAutoSender.__init__
InitSender ==
    /\ is_sending = FALSE
    /\ queue_paused = FALSE
    /\ analytics_data = [ sent |-> 0, errors |-> 0 ]
    /\ scheduled_messages = <<>>
    /\ threads = <<>>
    /\ msg_count = 0
    /\ sent_log = <<>>
    /\ hist = NoHist

InitLimiter ==
    /\ now = 0
    /\ rl = NewRateLimiter
    /\ last_call = NoCall
    /\ clock_steps = 0
    /\ InitSender
    /\ IdleScheduler
    /\ IdleSide

L_Elapse(d, cap) ==
    /\ clock_steps < cap
    /\ now' = now + d
    /\ clock_steps' = clock_steps + 1
    /\ UNCHANGED <<rl, last_call>>
    /\ UNCHANGED <<appVars, hist, hhVars, sideVars>>

L_can_send_message ==
    LET r == can_send_message(rl, now)
    IN  /\ rl' = r.limiter
        /\ last_call' = [ op |-> "can_send_message", at |-> now,
                          before |-> rl, result |-> r.result ]
        /\ UNCHANGED <<now, clock_steps>>
        /\ UNCHANGED <<appVars, hist, hhVars, sideVars>>

L_register_message_sent(cap) ==
    /\ rl.total_processed < cap
    /\ rl' = register_message_sent(rl, now)
    /\ last_call' = [ op |-> "register_message_sent", at |-> now,
                      before |-> rl, result |-> FALSE ]
    /\ UNCHANGED <<now, clock_steps>>
    /\ UNCHANGED <<appVars, hist, hhVars, sideVars>>

L_register_rate_limit_hit(cap) ==
    /\ rl.rate_limit_hits < cap
    /\ rl' = register_rate_limit_hit(rl)
    /\ last_call' = [ op |-> "register_rate_limit_hit", at |-> now,
                      before |-> rl, result |-> FALSE ]
    /\ UNCHANGED <<now, clock_steps>>
    /\ UNCHANGED <<appVars, hist, hhVars, sideVars>>

L_get_recommended_delay ==
    LET r == get_recommended_delay(rl, now)
    IN  /\ rl' = r.limiter
        /\ last_call' = [ op |-> "get_recommended_delay", at |-> now,
                          before |-> rl, result |-> r.result ]
        /\ UNCHANGED <<now, clock_steps>>
        /\ UNCHANGED <<appVars, hist, hhVars, sideVars>>

L_get_queue_status ==
    LET r == get_queue_status(rl, now)
    IN  /\ rl' = r.limiter
        /\ last_call' = [ op |-> "get_queue_status", at |-> now,
                          before |-> rl, result |-> r.result ]
        /\ UNCHANGED <<now, clock_steps>>
        /\ UNCHANGED <<appVars, hist, hhVars, sideVars>>

NextLimiter ==
    \/ \E d \in ElapseSteps : L_Elapse(d, MaxClockSteps)
    \/ L_can_send_message
    \/ L_get_recommended_delay
    \/ L_get_queue_status
    \/ L_register_message_sent(MaxSent)
    \/ L_register_rate_limit_hit(MaxHits)

SpecLimiter == InitLimiter /\ [][NextLimiter]_vars

(***************************************************************************)
(* Backoff specification: long sequences of register_message_sent and      *)
(* register_rate_limit_hit, enough to reach both clamps of                 *)
(* exponential_delay.                                                      *)
(***************************************************************************)
NextBackoff ==
    \/ L_Elapse(rate_limit, MaxBackoffClockSteps)
    \/ L_can_send_message
    \/ L_get_recommended_delay
    \/ L_get_queue_status
    \/ L_register_message_sent(MaxBackoffSent)
    \/ L_register_rate_limit_hit(MaxBackoffHits)

SpecBackoff == InitLimiter /\ [][NextBackoff]_vars

(***************************************************************************)
(* Application specification: DiscordAutoSender of src/main.py.            *)
(* The operations of the class run on the caller's thread; every           *)
(* start_sending starts a worker thread and every schedule_message a       *)
(* threading.Timer, both of which run send_messages. A thread is           *)
(*   [kind, pc, messages, idx, delay, wake, broke, cleared]                *)
(* with pc one of armed (timer not fired), iter (loop head), check         *)
(* (can_send_message), send, limited, sleep, exit, done; wake is the end   *)
(* of the current sleep or timer delay, and 0 outside of them.             *)
(* status_var texts are presentation and are not part of this state.       *)
(***************************************************************************)
TickMs == rate_limit

ScheduleDelays == min_schedule_delay .. MaxScheduleDelay

NewThread(kind, pc, msgs, delay, wake) ==
    [ kind |-> kind, pc |-> pc, messages |-> msgs, idx |-> 1, delay |-> delay,
      wake |-> wake, broke |-> FALSE, cleared |-> FALSE ]

InitApp ==
    /\ now = 0
    /\ rl = NewRateLimiter
    /\ last_call = NoCall
    /\ clock_steps = 0
    /\ InitSender
    /\ IdleScheduler
    /\ IdleSide

Tick ==
    /\ now + TickMs <= MaxTime
    /\ now' = now + TickMs
    /\ UNCHANGED <<rl, limiterVars, appVars>>

\* get_messages(): n non-empty lines of the text area
FreshMessages(n) == [ i \in 1..n |-> msg_count + i ]

\* start_sending; when is_sending is already set it returns without effect
start_sending(n) ==
    /\ ~is_sending
    /\ Len(threads) < MaxThreads
    /\ is_sending' = TRUE
    /\ msg_count' = msg_count + n
    /\ threads' = Append(threads,
                    NewThread("batch", "iter", FreshMessages(n), send_delay, 0))
    /\ UNCHANGED <<now, rl, limiterVars, queue_paused, analytics_data,
                   scheduled_messages, sent_log>>

stop_sending ==
    /\ is_sending' = FALSE
    /\ UNCHANGED <<now, rl, limiterVars, queue_paused, analytics_data,
                   scheduled_messages, threads, msg_count, sent_log>>

pause_queue ==
    /\ queue_paused' = TRUE
    /\ UNCHANGED <<now, rl, limiterVars, is_sending, analytics_data,
                   scheduled_messages, threads, msg_count, sent_log>>

resume_queue ==
    /\ queue_paused' = FALSE
    /\ UNCHANGED <<now, rl, limiterVars, is_sending, analytics_data,
                   scheduled_messages, threads, msg_count, sent_log>>

cancel_queue ==
    /\ is_sending' = FALSE
    /\ UNCHANGED <<now, rl, limiterVars, queue_paused, analytics_data,
                   scheduled_messages, threads, msg_count, sent_log>>

\* threading.Timer(delay, lambda: self.send_messages([msg], 0)).start()
\* followed by scheduled_messages.append((msg, delay))
ArmTimer(delay) ==
    /\ Len(threads) < MaxThreads
    /\ msg_count' = msg_count + 1
    /\ threads' = Append(threads,
                    NewThread("timer", "armed", <<msg_count + 1>>, 0,
                              now + delay * 1000))
    /\ scheduled_messages' = Append(scheduled_messages, <<msg_count + 1, delay>>)
    /\ UNCHANGED <<now, rl, limiterVars, is_sending, queue_paused,
                   analytics_data, sent_log>>

\* schedule_message: the text of the text area, a delay from the dialog
schedule_message(delay) == ArmTimer(delay)

\* schedule_message_advanced: text and delay from dialogs
schedule_message_advanced(delay) == ArmTimer(delay)

\* clears the list only; the timers stay armed
clear_scheduled_messages ==
    /\ scheduled_messages /= <<>>
    /\ scheduled_messages' = <<>>
    /\ threads' = [ i \in DOMAIN threads |->
                      IF threads[i].kind = "timer" /\ threads[i].pc = "armed"
                      THEN [threads[i] EXCEPT !.cleared = TRUE]
                      ELSE threads[i] ]
    /\ UNCHANGED <<now, rl, limiterVars, is_sending, queue_paused,
                   analytics_data, msg_count, sent_log>>

\* the timer expires and calls send_messages([msg], 0) on its own thread
TimerFire(i) ==
    /\ threads[i].pc = "armed"
    /\ now >= threads[i].wake
    /\ threads' = [threads EXCEPT ![i].pc = "iter", ![i].wake = 0]
    /\ UNCHANGED <<now, rl, limiterVars, is_sending, queue_paused,
                   analytics_data, scheduled_messages, msg_count, sent_log>>

\* the loop head without the is_sending test
LoopHead_without_test(i) ==
    /\ threads[i].pc = "iter"
    /\ threads' = [threads EXCEPT ![i] =
                     IF @.idx > Len(@.messages) THEN [@ EXCEPT !.pc = "exit"]
                     ELSE [@ EXCEPT !.pc = "check"]]
    /\ UNCHANGED <<now, rl, limiterVars, is_sending, queue_paused,
                   analytics_data, scheduled_messages, msg_count, sent_log>>

\* for msg in messages: if not self.is_sending: break
LoopHead(i) ==
    /\ threads[i].pc = "iter"
    /\ threads' = [threads EXCEPT ![i] =
                     IF @.idx > Len(@.messages) THEN [@ EXCEPT !.pc = "exit"]
                     ELSE IF ~is_sending THEN [@ EXCEPT !.pc = "exit", !.broke = TRUE]
                     ELSE [@ EXCEPT !.pc = "check"]]
    /\ UNCHANGED <<now, rl, limiterVars, is_sending, queue_paused,
                   analytics_data, scheduled_messages, msg_count, sent_log>>

\* if self.rate_limiter.can_send_message():
CheckRate(i) ==
    /\ threads[i].pc = "check"
    /\ LET r == can_send_message(rl, now)
       IN  /\ rl' = r.limiter
           /\ threads' = [threads EXCEPT ![i].pc =
                            IF r.result THEN "send" ELSE "limited"]
    /\ UNCHANGED <<now, limiterVars, is_sending, queue_paused,
                   analytics_data, scheduled_messages, msg_count, sent_log>>

\* the true branch, up to time.sleep(delay)
SendOne(i) ==
    /\ threads[i].pc = "send"
    /\ analytics_data' = [analytics_data EXCEPT !.sent = @ + 1]
    /\ rl' = register_message_sent(rl, now)
    /\ sent_log' = Append(sent_log,
                     [ msg |-> threads[i].messages[threads[i].idx], thread |-> i ])
    /\ threads' = [threads EXCEPT ![i].pc = "sleep",
                                  ![i].wake = now + threads[i].delay]
    /\ UNCHANGED <<now, limiterVars, is_sending, queue_paused,
                   scheduled_messages, msg_count>>

\* the else branch, up to the two sleeps that follow it:
\* time.sleep(get_recommended_delay()) and then time.sleep(delay)
RateLimited(i) ==
    /\ threads[i].pc = "limited"
    /\ analytics_data' = [analytics_data EXCEPT !.errors = @ + 1]
    /\ LET d == get_recommended_delay(register_rate_limit_hit(rl), now)
       IN  /\ rl' = d.limiter
           /\ threads' = [threads EXCEPT ![i].pc = "sleep",
                                         ![i].wake = now + d.result + threads[i].delay]
    /\ UNCHANGED <<now, limiterVars, is_sending, queue_paused,
                   scheduled_messages, msg_count, sent_log>>

\* time.sleep(delay) returns; the for loop takes the next message
WakeUp(i) ==
    /\ threads[i].pc = "sleep"
    /\ now >= threads[i].wake
    /\ threads' = [threads EXCEPT ![i].pc = "iter", ![i].idx = @ + 1,
                                  ![i].wake = 0]
    /\ UNCHANGED <<now, rl, limiterVars, is_sending, queue_paused,
                   analytics_data, scheduled_messages, msg_count, sent_log>>

\* after the loop: self.is_sending = False
LoopExit(i) ==
    /\ threads[i].pc = "exit"
    /\ is_sending' = FALSE
    /\ threads' = [threads EXCEPT ![i].pc = "done"]
    /\ UNCHANGED <<now, rl, limiterVars, queue_paused, analytics_data,
                   scheduled_messages, msg_count, sent_log>>

send_messages(i) ==
    \/ LoopHead(i)
    \/ CheckRate(i)
    \/ SendOne(i)
    \/ RateLimited(i)
    \/ WakeUp(i)
    \/ LoopExit(i)

NextApp ==
    \/ Tick /\ UNCHANGED <<hist, hhVars, sideVars>>
    \/ (\E n \in 0..MaxBatch : start_sending(n)) /\ UNCHANGED <<hist, hhVars, sideVars>>
    \/ stop_sending /\ UNCHANGED <<hist, hhVars, sideVars>>
    \/ pause_queue /\ UNCHANGED <<hist, hhVars, sideVars>>
    \/ resume_queue /\ UNCHANGED <<hist, hhVars, sideVars>>
    \/ cancel_queue /\ UNCHANGED <<hist, hhVars, sideVars>>
    \/ (\E d \in ScheduleDelays : schedule_message(d)) /\ UNCHANGED <<hist, hhVars, sideVars>>
    \/ (\E d \in ScheduleDelays : schedule_message_advanced(d)) /\ UNCHANGED <<hist, hhVars, sideVars>>
    \/ clear_scheduled_messages /\ UNCHANGED <<hist, hhVars, sideVars>>
    \/ (\E i \in DOMAIN threads : TimerFire(i)) /\ UNCHANGED <<hist, hhVars, sideVars>>
    \/ (\E i \in DOMAIN threads : send_messages(i)) /\ UNCHANGED <<hist, hhVars, sideVars>>

Spec == InitApp /\ [][NextApp]_vars

(***************************************************************************)
(* Import specification: the batch sender with import_settings, which      *)
(* reads a JSON file chosen by the user. A file may hold the keys          *)
(* "analytics" and "scheduled"; the key "messages" fills the text area,    *)
(* whose lines are the batch of the next start_sending.                    *)
(***************************************************************************)
ImportedFiles ==
    { [ has_analytics |-> ha, analytics |-> [ sent |-> se, errors |-> er ],
        has_scheduled |-> hs, scheduled |-> <<>> ] :
        ha \in BOOLEAN, se \in 0..MaxImported, er \in 0..MaxImported,
        hs \in BOOLEAN }

import_settings(data) ==
    /\ analytics_data' = IF data.has_analytics THEN data.analytics
                         ELSE analytics_data
    /\ scheduled_messages' = IF data.has_scheduled THEN data.scheduled
                             ELSE scheduled_messages
    /\ UNCHANGED <<now, rl, limiterVars, is_sending, queue_paused, threads,
                   msg_count, sent_log>>

NextImport ==
    \/ Tick /\ UNCHANGED <<hist, hhVars, sideVars>>
    \/ (\E n \in 0..MaxBatch : start_sending(n)) /\ UNCHANGED <<hist, hhVars, sideVars>>
    \/ (\E d \in ScheduleDelays : schedule_message(d)) /\ UNCHANGED <<hist, hhVars, sideVars>>
    \/ (\E i \in DOMAIN threads : TimerFire(i)) /\ UNCHANGED <<hist, hhVars, sideVars>>
    \/ (\E i \in DOMAIN threads : send_messages(i)) /\ UNCHANGED <<hist, hhVars, sideVars>>
    \/ (\E data \in ImportedFiles : import_settings(data)) /\ UNCHANGED <<hist, hhVars, sideVars>>

SpecImport == InitApp /\ [][NextImport]_vars

(***************************************************************************)
(* Cancel specification: the application with a record of cancel_queue.    *)
(* hist.cancelled is set by the first cancel_queue, and                    *)
(* hist.inflight_at_cancel are the threads that were then between the      *)
(* is_sending test and the end of the send of their current message.       *)
(***************************************************************************)
InFlight == { i \in DOMAIN threads : threads[i].pc \in {"check", "send"} }

\* cancel_queue, recorded
RecordedCancel ==
    /\ cancel_queue
    /\ hist' = IF hist.cancelled THEN hist
               ELSE [hist EXCEPT !.cancelled = TRUE,
                                 !.inflight_at_cancel = InFlight]
    /\ UNCHANGED <<hhVars, sideVars>>

NextCancel ==
    \/ RecordedCancel
    \/ Tick /\ UNCHANGED <<hist, hhVars, sideVars>>
    \/ (\E n \in 0..MaxBatch : start_sending(n)) /\ UNCHANGED <<hist, hhVars, sideVars>>
    \/ stop_sending /\ UNCHANGED <<hist, hhVars, sideVars>>
    \/ pause_queue /\ UNCHANGED <<hist, hhVars, sideVars>>
    \/ resume_queue /\ UNCHANGED <<hist, hhVars, sideVars>>
    \/ (\E d \in ScheduleDelays : schedule_message(d)) /\ UNCHANGED <<hist, hhVars, sideVars>>
    \/ (\E d \in ScheduleDelays : schedule_message_advanced(d)) /\ UNCHANGED <<hist, hhVars, sideVars>>
    \/ clear_scheduled_messages /\ UNCHANGED <<hist, hhVars, sideVars>>
    \/ (\E i \in DOMAIN threads : TimerFire(i)) /\ UNCHANGED <<hist, hhVars, sideVars>>
    \/ (\E i \in DOMAIN threads : send_messages(i)) /\ UNCHANGED <<hist, hhVars, sideVars>>

SpecCancel == InitApp /\ [][NextCancel]_vars

(***************************************************************************)
(* Pause specification: the application with a record of the first         *)
(* pause_queue / resume_queue pair. hist.paused_pending[i] are the         *)
(* messages batch worker i still held when the queue was paused: those its *)
(* loop had not yet sent or passed over.                                   *)
(***************************************************************************)
PendingOf(th) ==
    IF th.pc \in {"iter", "check", "send"}
    THEN SubSeq(th.messages, th.idx, Len(th.messages))
    ELSE SubSeq(th.messages, th.idx + 1, Len(th.messages))

LiveBatches ==
    { i \in DOMAIN threads : threads[i].kind = "batch" /\ threads[i].pc /= "done" }

\* pause_queue, recorded the first time
RecordedPause ==
    /\ pause_queue
    /\ hist' = IF hist.pause_state = "never"
               THEN [hist EXCEPT
                       !.pause_state = "paused",
                       !.paused_pending =
                           [ i \in DOMAIN threads |->
                               IF i \in LiveBatches
                               THEN PendingOf(threads[i]) ELSE <<>> ]]
               ELSE hist
    /\ UNCHANGED <<hhVars, sideVars>>

\* resume_queue, recorded when it ends the recorded pause
RecordedResume ==
    /\ resume_queue
    /\ hist' = IF hist.pause_state = "paused" /\ queue_paused
               THEN [hist EXCEPT !.pause_state = "resumed"]
               ELSE hist
    /\ UNCHANGED <<hhVars, sideVars>>

NextPause ==
    \/ RecordedPause
    \/ RecordedResume
    \/ Tick /\ UNCHANGED <<hist, hhVars, sideVars>>
    \/ (\E n \in 0..MaxBatch : start_sending(n)) /\ UNCHANGED <<hist, hhVars, sideVars>>
    \/ stop_sending /\ UNCHANGED <<hist, hhVars, sideVars>>
    \/ cancel_queue /\ UNCHANGED <<hist, hhVars, sideVars>>
    \/ (\E d \in ScheduleDelays : schedule_message(d)) /\ UNCHANGED <<hist, hhVars, sideVars>>
    \/ (\E d \in ScheduleDelays : schedule_message_advanced(d)) /\ UNCHANGED <<hist, hhVars, sideVars>>
    \/ clear_scheduled_messages /\ UNCHANGED <<hist, hhVars, sideVars>>
    \/ (\E i \in DOMAIN threads : TimerFire(i)) /\ UNCHANGED <<hist, hhVars, sideVars>>
    \/ (\E i \in DOMAIN threads : send_messages(i)) /\ UNCHANGED <<hist, hhVars, sideVars>>

SpecPause == InitApp /\ [][NextPause]_vars

(***************************************************************************)
(* HH:MM schedulers: schedule_message of "Working Versions/main - Copy.py" *)
(* (variant "copy") and schedule_message_advanced of                       *)
(* heal_md_enhanced_bridge.py (variant "bridge").                          *)
(*                                                                         *)
(* A datetime is [year, month, day, hour, minute, second]; second stands   *)
(* for the seconds and microseconds of datetime.now(), which strptime      *)
(* leaves at 0. A text is a sequence of characters, a message a sequence   *)
(* of message numbers (the lines of the text box).                         *)
(***************************************************************************)
IsLeap(y) == y % 4 = 0 /\ (y % 100 /= 0 \/ y % 400 = 0)
DaysInMonth(y, m) ==
    IF m = 2 THEN (IF IsLeap(y) THEN 29 ELSE 28)
    ELSE IF m \in {4, 6, 9, 11} THEN 30 ELSE 31

\* datetime comparison: year, month, day, hour, minute, second in that order
DtFields(d) == <<d.year, d.month, d.day, d.hour, d.minute, d.second>>
DtLess(a, b) ==
    \E i \in 1..6 : /\ DtFields(a)[i] < DtFields(b)[i]
                    /\ \A j \in 1..(i - 1) : DtFields(a)[j] = DtFields(b)[j]

\* d + timedelta(days=1)
PlusOneDay(d) ==
    IF d.day < DaysInMonth(d.year, d.month) THEN [d EXCEPT !.day = @ + 1]
    ELSE IF d.month < 12 THEN [d EXCEPT !.month = @ + 1, !.day = 1]
    ELSE [d EXCEPT !.year = @ + 1, !.month = 1, !.day = 1]

\* d.replace(day=d.day + 1): ValueError when the day does not exist
ReplaceDayPlusOne(d) ==
    IF d.day + 1 <= DaysInMonth(d.year, d.month)
    THEN [ ok |-> TRUE, value |-> [d EXCEPT !.day = @ + 1] ]
    ELSE [ ok |-> FALSE, value |-> d ]

Digits == <<"0", "1", "2", "3", "4", "5", "6", "7", "8", "9">>
IsDigit(c) == \E v \in 1..10 : Digits[v] = c
DigitVal(c) == (CHOOSE v \in 1..10 : Digits[v] = c) - 1

\* the characters a time can be typed with, and the texts of the model
TimeChars == { "0", "7", ":", " " }
TimeStrings == UNION { [1..n -> TimeChars] : n \in 0..MaxStrLen }

\* str.strip()
RECURSIVE Strip(_)
Strip(str) ==
    IF str = <<>> THEN str
    ELSE IF str[1] = " " THEN Strip(Tail(str))
    ELSE IF str[Len(str)] = " " THEN Strip(SubSeq(str, 1, Len(str) - 1))
    ELSE str

\* strptime without its check for text left over after the match
StrpTimePrefix(str) ==
    LET n == Len(str)
        dg(i) == i >= 1 /\ i <= n /\ IsDigit(str[i])
        h2 == dg(1) /\ dg(2) /\ ( \/ str[1] = "2" /\ DigitVal(str[2]) <= 3
                                  \/ str[1] \in {"0", "1"} )
        hlen == IF h2 THEN 2 ELSE IF dg(1) THEN 1 ELSE 0
        colon == hlen > 0 /\ hlen + 1 <= n /\ str[hlen + 1] = ":"
        p == hlen + 2
        m2 == dg(p) /\ dg(p + 1) /\ DigitVal(str[p]) <= 5
        mlen == IF m2 THEN 2 ELSE IF dg(p) THEN 1 ELSE 0
        ok == colon /\ mlen > 0
    IN  IF ~ok THEN [ ok |-> FALSE, hour |-> 0, minute |-> 0 ]
        ELSE [ ok |-> TRUE,
               hour |-> IF hlen = 2 THEN 10 * DigitVal(str[1]) + DigitVal(str[2])
                        ELSE DigitVal(str[1]),
               minute |-> IF mlen = 2 THEN 10 * DigitVal(str[p]) + DigitVal(str[p + 1])
                          ELSE DigitVal(str[p]) ]

\* datetime.strptime(str, "%H:%M"): %H is 2[0-3] | [0-1]\d | \d, then ":",
\* %M is [0-5]\d | \d; text left over after the match is a ValueError
StrpTime(str) ==
    LET n == Len(str)
        dg(i) == i >= 1 /\ i <= n /\ IsDigit(str[i])
        h2 == dg(1) /\ dg(2) /\ ( \/ str[1] = "2" /\ DigitVal(str[2]) <= 3
                                  \/ str[1] \in {"0", "1"} )
        hlen == IF h2 THEN 2 ELSE IF dg(1) THEN 1 ELSE 0
        colon == hlen > 0 /\ hlen + 1 <= n /\ str[hlen + 1] = ":"
        p == hlen + 2
        m2 == dg(p) /\ dg(p + 1) /\ DigitVal(str[p]) <= 5
        mlen == IF m2 THEN 2 ELSE IF dg(p) THEN 1 ELSE 0
        ok == colon /\ mlen > 0 /\ p + mlen - 1 = n
    IN  IF ~ok THEN [ ok |-> FALSE, hour |-> 0, minute |-> 0 ]
        ELSE [ ok |-> TRUE,
               hour |-> IF hlen = 2 THEN 10 * DigitVal(str[1]) + DigitVal(str[2])
                        ELSE DigitVal(str[1]),
               minute |-> IF mlen = 2 THEN 10 * DigitVal(str[p]) + DigitVal(str[p + 1])
                          ELSE DigitVal(str[p]) ]

AtTime(d, h, m) == [d EXCEPT !.hour = h, !.minute = m, !.second = 0]

\* the text box: its lines, numbered; line 0 is the hint the box starts with,
\* "Type your message(s) here. Each line is a separate message."
Placeholder == <<0>>
EntryTexts == { <<>>, Placeholder, <<1, 2>> }

\* get_messages of main - Copy.py, applied to the text of the box
copy_get_messages(text) ==
    IF text = <<>> \/ text = Placeholder THEN <<>> ELSE text

\* strftime("%H:%M")
Pad2(n) == IF n < 10 THEN "0" \o ToString(n) ELSE ToString(n)
StrfTime(d) == Pad2(d.hour) \o ":" \o Pad2(d.minute)

\* What a text means as a time of day, by the format and not by the parser:
\* one colon, before it an hour of one or two digits up to 23, after it a
\* minute of one or two digits up to 59.
Number(part) ==
    IF Len(part) \in {1, 2} /\ \A i \in DOMAIN part : IsDigit(part[i])
    THEN IF Len(part) = 1 THEN DigitVal(part[1])
         ELSE 10 * DigitVal(part[1]) + DigitVal(part[2])
    ELSE -1
Meaning(str) ==
    LET colons == { k \in DOMAIN str : str[k] = ":" }
    IN  IF Cardinality(colons) /= 1 THEN [ ok |-> FALSE, hour |-> 0, minute |-> 0 ]
        ELSE LET k == CHOOSE c \in colons : TRUE
                 h == Number(SubSeq(str, 1, k - 1))
                 m == Number(SubSeq(str, k + 1, Len(str)))
             IN  IF h \in 0..23 /\ m \in 0..59
                 THEN [ ok |-> TRUE, hour |-> h, minute |-> m ]
                 ELSE [ ok |-> FALSE, hour |-> 0, minute |-> 0 ]

\* The texts typed as a time: every text of TimeStrings up to what the two
\* schedulers and the format make of it, one text for each such reading.
Reading(str) ==
    [ empty |-> str = <<>>, blank |-> Strip(str) = <<>>,
      parsed |-> StrpTime(str), stripped |-> StrpTime(Strip(str)),
      means |-> Meaning(str), stripped_means |-> Meaning(Strip(str)) ]
Readings == { Reading(str) : str \in TimeStrings }
TypedTimes == { CHOOSE str \in TimeStrings : Reading(str) = r : r \in Readings }

\* what the HH:MM schedulers leave alone: the rate limiter and the bookkeeping
\* of the specifications of src/main.py
hhFrame == <<now, rl, last_call, clock_steps, queue_paused, analytics_data,
             msg_count, hist, variant, sideVars>>

\* the program starts with the clock at the end of November or December,
\* before or on the last day, at 07:00:00 or 07:00:30
WallClocks ==
    { [ year |-> 2025, month |-> m, day |-> d, hour |-> 7, minute |-> 0, second |-> sec ] :
        m \in {11, 12}, d \in 27..31, sec \in {0, 30} }

InitHHMM ==
    /\ now = 0
    /\ rl = NewRateLimiter
    /\ last_call = NoCall
    /\ clock_steps = 0
    /\ InitSender
    /\ variant \in {"copy", "bridge"}
    /\ wall \in { w \in WallClocks :
                    w.day \in { DaysInMonth(w.year, w.month) - 1, DaysInMonth(w.year, w.month) } }
    /\ message_entry = Placeholder
    /\ status = "Idle."
    /\ sched_calls = 0
    /\ last_sched = NoSched
    /\ IdleSide

Waiter(send_time, msg) ==
    [ kind |-> "waiter", pc |-> "wait", messages |-> msg, idx |-> 1,
      send_time |-> send_time ]
Sender(messages) ==
    [ kind |-> "sender", pc |-> "iter", messages |-> messages, idx |-> 1,
      send_time |-> NoDate ]

\* schedule_message of main - Copy.py; time_str is the answer to the dialog
copy_schedule_message(time_str, calls, thr) ==
    /\ variant = "copy"
    /\ sched_calls < calls
    /\ Len(threads) < thr
    /\ sched_calls' = sched_calls + 1
    /\ LET msg == message_entry
           parsed == StrpTime(time_str)
           today == AtTime(wall, parsed.hour, parsed.minute)
           tomorrow == ReplaceDayPlusOne(today)
           raised == ~parsed.ok \/ (DtLess(today, wall) /\ ~tomorrow.ok)
           send_time == IF DtLess(today, wall) THEN tomorrow.value ELSE today
       IN  IF msg = <<>>
           THEN /\ status' = "No message to schedule."
                /\ last_sched' = [ op |-> "schedule_message", answered |-> FALSE,
                                   time_str |-> <<>>, showerror |-> "", raised |-> "" ]
                /\ UNCHANGED <<scheduled_messages, threads>>
           ELSE IF time_str = <<>>
           THEN /\ last_sched' = [ op |-> "schedule_message", answered |-> FALSE,
                                   time_str |-> <<>>, showerror |-> "", raised |-> "" ]
                /\ UNCHANGED <<status, scheduled_messages, threads>>
           ELSE /\ last_sched' = [ op |-> "schedule_message", answered |-> TRUE,
                                   time_str |-> time_str, showerror |-> "", raised |-> "" ]
                /\ IF raised
                   THEN /\ status' = "Invalid time format."
                        /\ UNCHANGED <<scheduled_messages, threads>>
                   ELSE /\ scheduled_messages' =
                              Append(scheduled_messages,
                                     [ send_time |-> send_time, msg |-> msg ])
                        /\ status' = "Message scheduled for " \o StrfTime(send_time) \o "."
                        /\ threads' = Append(threads, Waiter(send_time, msg))
    /\ UNCHANGED <<hhFrame, wall, message_entry, is_sending, sent_log>>

\* schedule_message_advanced of heal_md_enhanced_bridge.py; entry is the text of
\* schedule_time_entry. The class has no _wait_and_send: the last statement
\* raises AttributeError, which except ValueError lets through.
bridge_schedule_message_advanced(entry) ==
    /\ variant = "bridge"
    /\ sched_calls < MaxScheduleCalls
    /\ sched_calls' = sched_calls + 1
    /\ LET time_str == Strip(entry)
           parsed == StrpTime(time_str)
           msg == message_entry
           today == AtTime(wall, parsed.hour, parsed.minute)
           send_time == IF ~DtLess(wall, today) THEN PlusOneDay(today) ELSE today
           call(err, exc) == [ op |-> "schedule_message_advanced", answered |-> TRUE,
                               time_str |-> time_str, showerror |-> err,
                               raised |-> exc ]
       IN  IF time_str = <<>>
           THEN /\ last_sched' = call("Please enter a time (HH:MM).", "")
                /\ UNCHANGED scheduled_messages
           ELSE IF ~parsed.ok
           THEN /\ last_sched' = call("Invalid time format. Use HH:MM (24-hour format).", "")
                /\ UNCHANGED scheduled_messages
           ELSE IF msg = <<>> \/ msg = Placeholder
           THEN /\ last_sched' = call("Please enter a message to schedule.", "")
                /\ UNCHANGED scheduled_messages
           ELSE /\ scheduled_messages' =
                      Append(scheduled_messages, [ send_time |-> send_time, msg |-> msg ])
                /\ last_sched' = call("", "AttributeError")
    /\ UNCHANGED <<hhFrame, wall, message_entry, status, threads, is_sending, sent_log>>

\* the user edits the message_entry text box
EditEntry(text) ==
    /\ variant \in {"copy", "bridge"}
    /\ message_entry' = text
    /\ UNCHANGED <<hhFrame, wall, status, sched_calls, last_sched, is_sending,
                   scheduled_messages, threads, sent_log>>

\* cancel_queue of main - Copy.py and of heal_md_enhanced_bridge.py
hhmm_cancel_queue ==
    /\ variant \in {"copy", "bridge"}
    /\ scheduled_messages' = <<>>
    /\ status' = "Queue cancelled."
    /\ UNCHANGED <<hhFrame, wall, message_entry, sched_calls, last_sched, is_sending,
                   threads, sent_log>>

\* stop_sending of main - Copy.py
copy_stop_sending ==
    /\ variant = "copy"
    /\ is_sending' = FALSE
    /\ status' = "Sending stopped."
    /\ UNCHANGED <<hhFrame, wall, message_entry, sched_calls, last_sched,
                   scheduled_messages, threads, sent_log>>

\* datetime.now() moves on to the time a waiting thread waits for
WallAdvance ==
    \E i \in DOMAIN threads :
        /\ threads[i].kind = "waiter"
        /\ threads[i].pc = "wait"
        /\ DtLess(wall, threads[i].send_time)
        /\ wall' = threads[i].send_time
        /\ UNCHANGED <<hhFrame, message_entry, status, sched_calls, last_sched,
                       is_sending, scheduled_messages, threads, sent_log>>

\* _wait_and_send of main - Copy.py, from the end of its loop: it overwrites the
\* text box
ws_overwrite(i) ==
    /\ threads[i].kind = "waiter"
    /\ threads[i].pc = "wait"
    /\ ~DtLess(wall, threads[i].send_time)
    /\ message_entry' = threads[i].messages
    /\ threads' = [threads EXCEPT ![i].pc = "start"]
    /\ UNCHANGED <<hhFrame, wall, status, is_sending, sched_calls, last_sched,
                   scheduled_messages, sent_log>>

\* and calls start_sending, which reads the box back (get_messages) and starts
\* send_messages in a thread unless there is nothing to send
ws_start_sending(i, thr) ==
    /\ threads[i].kind = "waiter"
    /\ threads[i].pc = "start"
    /\ Len(threads) < thr
    /\ UNCHANGED message_entry
    /\ LET messages == copy_get_messages(message_entry)
           ended == [threads EXCEPT ![i].pc = "done"]
       IN  IF messages = <<>>
           THEN /\ status' = "No messages to send."
                /\ threads' = ended
                /\ UNCHANGED is_sending
           ELSE /\ is_sending' = TRUE
                /\ status' = "Sending messages..."
                /\ threads' = Append(ended, Sender(messages))
    /\ UNCHANGED <<hhFrame, wall, sched_calls, last_sched, scheduled_messages,
                   sent_log>>

wait_and_send(i, thr) == ws_overwrite(i) \/ ws_start_sending(i, thr)

\* send_messages of main - Copy.py: the loop head, one message, the end
copy_send_messages(i) ==
    /\ threads[i].kind = "sender"
    /\ LET th == threads[i]
       IN  \/ /\ th.pc = "iter"
              /\ threads' = [threads EXCEPT ![i].pc =
                                IF th.idx > Len(th.messages) \/ ~is_sending
                                THEN "exit" ELSE "sleep"]
              /\ UNCHANGED <<status, is_sending, sent_log>>
           \/ /\ th.pc = "sleep"
              /\ sent_log' = Append(sent_log, [ msg |-> th.messages[th.idx], thread |-> i ])
              /\ status' = "Sent " \o ToString(th.idx) \o "/"
                               \o ToString(Len(th.messages)) \o " messages."
              /\ threads' = [threads EXCEPT ![i].pc = "iter", ![i].idx = @ + 1]
              /\ UNCHANGED is_sending
           \/ /\ th.pc = "exit"
              /\ is_sending' = FALSE
              /\ status' = "Done sending messages."
              /\ threads' = [threads EXCEPT ![i].pc = "done"]
              /\ UNCHANGED sent_log
    /\ UNCHANGED <<hhFrame, wall, message_entry, sched_calls, last_sched,
                   scheduled_messages>>

NextHHMM ==
    \/ \E time_str \in TypedTimes :
          copy_schedule_message(time_str, MaxScheduleCalls, MaxThreads)
    \/ \E entry \in TypedTimes : bridge_schedule_message_advanced(entry)
    \/ \E text \in EntryTexts : EditEntry(text)
    \/ hhmm_cancel_queue
    \/ copy_stop_sending
    \/ WallAdvance
    \/ \E i \in DOMAIN threads : wait_and_send(i, MaxThreads)
    \/ \E i \in DOMAIN threads : copy_send_messages(i)

SpecHHMM == InitHHMM /\ [][NextHHMM]_vars

(***************************************************************************)
(* Fire specification: main - Copy.py with two messages of one line each   *)
(* scheduled for the same minute. The user types in the box only before    *)
(* the fire time; after it the box is written by the waiting threads.      *)
(***************************************************************************)
FireTexts == { <<1>>, <<2>> }
FireTimes == { <<"7", ":", "7">> }

InitFire ==
    /\ InitHHMM
    /\ variant = "copy"
    /\ wall = [ year |-> 2025, month |-> 11, day |-> 29,
                hour |-> 7, minute |-> 0, second |-> 0 ]

NextFire ==
    \/ /\ \A i \in DOMAIN threads : DtLess(wall, threads[i].send_time)
       /\ \E text \in FireTexts : EditEntry(text)
    \/ \E time_str \in FireTimes :
          copy_schedule_message(time_str, MaxFireCalls, MaxFireThreads)
    \/ WallAdvance
    \/ \E i \in DOMAIN threads : wait_and_send(i, MaxFireThreads)
    \/ \E i \in DOMAIN threads : copy_send_messages(i)

SpecFire == InitFire /\ [][NextFire]_vars

(***************************************************************************)
(* The burst: batches of burst_threshold + 1 messages handed to            *)
(* start_sending of src/main.py, and the clock running long enough for the *)
(* worker to go through the batch.                                         *)
(***************************************************************************)
BurstBatch == burst_threshold + 1

BurstTick ==
    /\ now + TickMs <= MaxBurstTime
    /\ now' = now + TickMs
    /\ UNCHANGED <<rl, limiterVars, appVars>>

NextBurst ==
    \/ BurstTick /\ UNCHANGED <<hist, hhVars, sideVars>>
    \/ start_sending(BurstBatch) /\ UNCHANGED <<hist, hhVars, sideVars>>
    \/ (\E i \in DOMAIN threads : send_messages(i)) /\ UNCHANGED <<hist, hhVars, sideVars>>

SpecBurst == InitApp /\ [][NextBurst]_vars

(***************************************************************************)
(* Burst specification with timers: the batch worker of SpecBurst together *)
(* with the timers of schedule_message, whose threads call                 *)
(* send_messages([msg], 0) on the same rate limiter.                       *)
(***************************************************************************)
BurstTimersTick ==
    /\ now + TickMs <= MaxBurstTimersTime
    /\ now' = now + TickMs
    /\ UNCHANGED <<rl, limiterVars, appVars>>

NextBurstTimers ==
    \/ BurstTimersTick /\ UNCHANGED <<hist, hhVars, sideVars>>
    \/ start_sending(BurstBatch) /\ UNCHANGED <<hist, hhVars, sideVars>>
    \/ (\E d \in ScheduleDelays : schedule_message(d)) /\ UNCHANGED <<hist, hhVars, sideVars>>
    \/ (\E i \in DOMAIN threads : TimerFire(i)) /\ UNCHANGED <<hist, hhVars, sideVars>>
    \/ (\E i \in DOMAIN threads : send_messages(i)) /\ UNCHANGED <<hist, hhVars, sideVars>>

SpecBurstTimers == InitApp /\ [][NextBurstTimers]_vars

(***************************************************************************)
(* send_message_advanced of python/main/main.py and of                     *)
(* heal_md_enhanced_bridge.py: the retrying sender. tx.message is the      *)
(* length of the message, tx.outcomes the attempts made so far, each with  *)
(* the way it ended. python/main/main.py defines no focus_discord_window:  *)
(* the call raises NameError inside the try. tx.logged counts the calls of *)
(* log_error by send_message_advanced, tx.pauses those of sleep(1);        *)
(* tx.target is what the keyboard calls have left in the focused window    *)
(* (character k of the message is k, the letter of a simulated mistake 0), *)
(* tx.enters the presses of enter; tx.cancelled tells that cancel_queue    *)
(* ran during the call.                                                    *)
(***************************************************************************)
txFrame == <<now, rl, limiterVars, appVars, hist, hhVars, zz, race>>

InitAdvanced ==
    /\ now = 0
    /\ rl = NewRateLimiter
    /\ last_call = NoCall
    /\ clock_steps = 0
    /\ InitSender
    /\ IdleScheduler
    /\ zz = NewAutoGui
    /\ race = NoRace
    /\ \E prog \in {"python/main/main.py", "bridge"},
          n \in 0..MaxAttempts, len \in 0..MaxMessageLen :
          tx = [ program |-> prog, pc |-> "for", max_attempts |-> n,
                 message |-> len, attempt |-> 0, typed |-> 0,
                 outcomes |-> <<>>, result |-> "none",
                 logged |-> 0, pauses |-> 0, target |-> <<>>, enters |-> 0,
                 cancelled |-> FALSE ]

\* the except clause: log_error, sleep(1), next attempt
AttemptRaised ==
    [tx EXCEPT !.pc = "for", !.outcomes = Append(@, "raised"),
               !.logged = @ + 1, !.pauses = @ + 1]

\* the loop over range(1, max_attempts + 2)
sma_for_one_more ==
    /\ tx.pc = "for"
    /\ tx' = IF tx.attempt <= tx.max_attempts
             THEN [tx EXCEPT !.attempt = @ + 1, !.typed = 0, !.pc = "focus"]
             ELSE [tx EXCEPT !.pc = "returned", !.result = "False"]
    /\ UNCHANGED txFrame

\* for attempt in range(1, max_attempts + 1), and what follows the loop:
\* show_error_dialog and return False
sma_for ==
    /\ tx.pc = "for"
    /\ tx' = IF tx.attempt < tx.max_attempts
             THEN [tx EXCEPT !.attempt = @ + 1, !.typed = 0, !.pc = "focus"]
             ELSE [tx EXCEPT !.pc = "returned", !.result = "False"]
    /\ UNCHANGED txFrame

\* focus_discord_window of heal_md_enhanced_bridge.py: a window titled
\* Discord is activated, or there is none, or the lookup raises, which the
\* function logs before it returns False
FocusOutcomes == { "activated", "no window", "raised" }

\* if not focus_discord_window(): continue
sma_focus ==
    /\ tx.pc = "focus"
    /\ IF tx.program = "python/main/main.py"
       THEN tx' = AttemptRaised
       ELSE \E focus \in FocusOutcomes :
               tx' = IF focus = "activated" THEN [tx EXCEPT !.pc = "type"]
                     ELSE [tx EXCEPT !.pc = "for",
                                     !.outcomes = Append(@, "refused"),
                                     !.logged = IF focus = "raised" THEN @ + 1 ELSE @]
    /\ UNCHANGED txFrame

\* the keyboard call of the loop body that raises, if any
KeyboardRaises == { "none", "typo", "backspace", "char" }

\* one character of the message: with a simulated mistake a random letter is
\* written and removed with backspace first, then the character is written;
\* any of the keyboard calls may raise
sma_type ==
    /\ tx.pc = "type"
    /\ tx.typed < tx.message
    /\ \E mistake \in BOOLEAN, raises \in KeyboardRaises :
          /\ raises \in {"typo", "backspace"} => mistake
          /\ tx' = CASE raises = "none" ->
                         [tx EXCEPT !.typed = @ + 1,
                                    !.target = Append(@, tx.typed + 1)]
                      [] raises = "backspace" ->
                         [AttemptRaised EXCEPT !.target = Append(@, 0)]
                      [] OTHER -> AttemptRaised
    /\ UNCHANGED txFrame

\* keyboard.press_and_release('enter'); return True
sma_enter ==
    /\ tx.pc = "type"
    /\ tx.typed = tx.message
    /\ \E raises \in BOOLEAN :
          tx' = IF raises THEN AttemptRaised
                ELSE [tx EXCEPT !.pc = "returned", !.result = "True",
                                !.outcomes = Append(@, "completed"),
                                !.enters = @ + 1]
    /\ UNCHANGED txFrame

send_message_advanced == sma_for \/ sma_focus \/ sma_type \/ sma_enter

\* cancel_queue of heal_md_enhanced_bridge.py, called while
\* send_message_advanced is running (python/main/main.py has no cancel_queue)
sma_cancel_queue ==
    /\ tx.program = "bridge"
    /\ tx.pc \in { "for", "focus", "type" }
    /\ scheduled_messages' = <<>>
    /\ status' = "Queue cancelled."
    /\ tx' = [tx EXCEPT !.cancelled = TRUE]
    /\ UNCHANGED <<now, rl, limiterVars, is_sending, queue_paused, analytics_data,
                   threads, msg_count, sent_log, hist, variant, wall,
                   message_entry, sched_calls, last_sched, zz, race>>

NextAdvanced == send_message_advanced \/ sma_cancel_queue

SpecAdvanced == InitAdvanced /\ [][NextAdvanced]_vars

(***************************************************************************)
(* Working Versions/zzdiscord_auto_gui.py: start_sending, stop_sending and *)
(* the send_messages thread, whose try encloses the whole for loop.        *)
(***************************************************************************)
zzFrame == <<now, rl, limiterVars, appVars, hist, hhVars, tx, race>>

InitAutoGui ==
    /\ now = 0
    /\ rl = NewRateLimiter
    /\ last_call = NoCall
    /\ clock_steps = 0
    /\ InitSender
    /\ IdleScheduler
    /\ tx = NoCallAdvanced
    /\ zz = NewAutoGui
    /\ race = NoRace

\* start_sending with n messages in the box and the list; get_messages raises
\* ValueError when there are none, after is_sending was set. One thread is
\* followed: the call is taken when the thread before it has ended.
zz_start_sending(n) ==
    /\ ~zz.is_sending
    /\ zz.pc \in {"none", "done"}
    /\ zz.starts < MaxStarts
    /\ zz' = IF n = 0
             THEN [zz EXCEPT !.is_sending = TRUE, !.errors = @ + 1, !.starts = @ + 1]
             ELSE [zz EXCEPT !.is_sending = TRUE, !.starts = @ + 1, !.pc = "for",
                             !.messages = n, !.idx = 1, !.sent = 0,
                             !.attempts = <<>>]
    /\ UNCHANGED zzFrame

zz_stop_sending ==
    /\ zz' = [zz EXCEPT !.is_sending = FALSE]
    /\ UNCHANGED zzFrame

\* for msg in messages: if not self.is_sending: break; after the loop the
\* "Done" status and the finally clause
zz_for ==
    /\ zz.pc = "for"
    /\ zz' = IF zz.idx <= zz.messages /\ zz.is_sending
             THEN [zz EXCEPT !.pc = "send"]
             ELSE [zz EXCEPT !.pc = "done", !.is_sending = FALSE]
    /\ UNCHANGED zzFrame

\* pyautogui.typewrite(msg); pyautogui.press('enter'); sent += 1; status, log,
\* sleep. When a call raises, the except clause counts the error and the
\* finally clause ends the thread.
zz_send ==
    /\ zz.pc = "send"
    /\ \E raises \in BOOLEAN :
          zz' = IF raises
                THEN [zz EXCEPT !.attempts = Append(@, "failed"),
                                !.errors = @ + 1, !.pc = "done",
                                !.is_sending = FALSE]
                ELSE [zz EXCEPT !.attempts = Append(@, "sent"),
                                !.sent = @ + 1, !.idx = @ + 1, !.pc = "for"]
    /\ UNCHANGED zzFrame

zz_send_messages == zz_for \/ zz_send

NextAutoGui ==
    \/ \E n \in 0..MaxBatch : zz_start_sending(n)
    \/ zz_stop_sending
    \/ zz_send_messages

SpecAutoGui == InitAutoGui /\ [][NextAutoGui]_vars

(***************************************************************************)
(* Stop specification: src/main.py or zzdiscord_auto_gui.py (variant tells *)
(* which program runs) with a record of stop_sending, and no start_sending *)
(* after it. hist.sent_at_stop is the number of messages sent when the     *)
(* last stop_sending returned: the length of sent_log in src/main.py, the  *)
(* worker's count sent in zzdiscord_auto_gui.py.                           *)
(***************************************************************************)
StopPrograms == { "main", "zzdiscord_auto_gui.py" }

InitStop ==
    /\ now = 0
    /\ rl = NewRateLimiter
    /\ last_call = NoCall
    /\ clock_steps = 0
    /\ InitSender
    /\ variant \in StopPrograms
    /\ wall = NoDate
    /\ message_entry = <<>>
    /\ status = "Idle."
    /\ sched_calls = 0
    /\ last_sched = NoSched
    /\ IdleSide

RecordedStop ==
    /\ stop_sending
    /\ hist' = [hist EXCEPT !.stopped = TRUE, !.sent_at_stop = Len(sent_log)]
    /\ UNCHANGED <<hhVars, sideVars>>

\* stop_sending of zzdiscord_auto_gui.py, recorded
zz_RecordedStop ==
    /\ zz' = [zz EXCEPT !.is_sending = FALSE]
    /\ hist' = [hist EXCEPT !.stopped = TRUE, !.sent_at_stop = zz.sent]
    /\ UNCHANGED <<now, rl, limiterVars, appVars, hhVars, tx, race>>

StopMain ==
    /\ variant = "main"
    /\ \/ Tick /\ UNCHANGED <<hist, hhVars, sideVars>>
       \/ /\ ~hist.stopped
          /\ \E n \in 0..MaxBatch : start_sending(n)
          /\ UNCHANGED <<hist, hhVars, sideVars>>
       \/ RecordedStop
       \/ (\E i \in DOMAIN threads : send_messages(i)) /\ UNCHANGED <<hist, hhVars, sideVars>>

StopAutoGui ==
    /\ variant = "zzdiscord_auto_gui.py"
    /\ \/ ~hist.stopped /\ \E n \in 0..MaxBatch : zz_start_sending(n)
       \/ zz_RecordedStop
       \/ zz_send_messages

NextStop == StopMain \/ StopAutoGui

SpecStop == InitStop /\ [][NextStop]_vars


(***************************************************************************)
(* Interleaving specification: the threads started by start_sending and by *)
(* the timers of src/main.py share one DiscordRateLimiter, which has no    *)
(* lock. Each thread goes once through the body of the loop of             *)
(* send_messages, and the statements of the limiter's methods are taken    *)
(* one read or one write of self at a time: t, tmp and pruned are locals.  *)
(***************************************************************************)
raceFrame == <<limiterVars, appVars, hist, hhVars, tx, zz>>

NewCaller ==
    [ pc |-> "cs_read", phase |-> "check", t |-> 0, tmp |-> 0, pruned |-> <<>> ]

InitRace ==
    /\ now = 0
    /\ rl = NewRateLimiter
    /\ last_call = NoCall
    /\ clock_steps = 0
    /\ InitSender
    /\ IdleScheduler
    /\ tx = NoCallAdvanced
    /\ zz = NewAutoGui
    /\ race = [ thr |-> [ i \in 1..MaxRaceThreads |-> NewCaller ],
                done_sent |-> 0, done_hits |-> 0 ]

RaceTick ==
    /\ now + TickMs <= MaxRaceTime
    /\ now' = now + TickMs
    /\ UNCHANGED <<rl, race, raceFrame>>

\* can_send_message: current_time = time.time() and the list comprehension
r_can_send_read(i) ==
    /\ race.thr[i].pc = "cs_read"
    /\ race' = [race EXCEPT !.thr[i].pc = "cs_assign", !.thr[i].t = now,
                            !.thr[i].pruned = RecentHistory(rl.message_history, now)]
    /\ UNCHANGED <<now, rl, raceFrame>>

\* can_send_message: self.message_history = [...]
r_can_send_assign(i) ==
    /\ race.thr[i].pc = "cs_assign"
    /\ rl' = [rl EXCEPT !.message_history = race.thr[i].pruned]
    /\ race' = [race EXCEPT !.thr[i].pc = "cs_decide"]
    /\ UNCHANGED <<now, raceFrame>>

\* can_send_message: the two tests on self.message_history and the return;
\* in send_messages the answer selects the branch, in get_recommended_delay
\* it ends the body of the loop
r_can_send_decide(i) ==
    /\ race.thr[i].pc = "cs_decide"
    /\ LET h == rl.message_history
           t == race.thr[i].t
           burst == Len(h) >= burst_threshold
           answer == ~burst /\ ~(h /= <<>> /\ (t - Last(h)) < rate_limit)
       IN  /\ rl' = IF burst THEN [rl EXCEPT !.last_burst_time = t] ELSE rl
           /\ race' = [race EXCEPT !.thr[i].pc =
                          IF race.thr[i].phase = "delay" THEN "done"
                          ELSE IF answer THEN "rs_append" ELSE "rh_load"]
    /\ UNCHANGED <<now, raceFrame>>

\* register_message_sent: self.message_history.append(current_time)
r_sent_append(i) ==
    /\ race.thr[i].pc = "rs_append"
    /\ rl' = [rl EXCEPT !.message_history = Append(@, now)]
    /\ race' = [race EXCEPT !.thr[i].pc = "rs_load"]
    /\ UNCHANGED <<now, raceFrame>>

\* register_message_sent: self.total_processed += 1, the read
r_sent_load(i) ==
    /\ race.thr[i].pc = "rs_load"
    /\ race' = [race EXCEPT !.thr[i].pc = "rs_store",
                            !.thr[i].tmp = rl.total_processed]
    /\ UNCHANGED <<now, rl, raceFrame>>

\* register_message_sent: self.total_processed += 1, the write
r_sent_store(i) ==
    /\ race.thr[i].pc = "rs_store"
    /\ rl' = [rl EXCEPT !.total_processed = race.thr[i].tmp + 1]
    /\ race' = [race EXCEPT !.thr[i].pc = "rs_delay"]
    /\ UNCHANGED <<now, raceFrame>>

\* register_message_sent: the assignment of exponential_delay, and the return
r_sent_delay(i) ==
    /\ race.thr[i].pc = "rs_delay"
    /\ rl' = [rl EXCEPT !.exponential_delay =
                            Max(success_delay_floor, DecayedDelay(@))]
    /\ race' = [race EXCEPT !.thr[i].pc = "done", !.done_sent = @ + 1]
    /\ UNCHANGED <<now, raceFrame>>

\* register_rate_limit_hit: self.rate_limit_hits += 1, the read
r_hit_load(i) ==
    /\ race.thr[i].pc = "rh_load"
    /\ race' = [race EXCEPT !.thr[i].pc = "rh_store",
                            !.thr[i].tmp = rl.rate_limit_hits]
    /\ UNCHANGED <<now, rl, raceFrame>>

\* register_rate_limit_hit: self.rate_limit_hits += 1, the write
r_hit_store(i) ==
    /\ race.thr[i].pc = "rh_store"
    /\ rl' = [rl EXCEPT !.rate_limit_hits = race.thr[i].tmp + 1]
    /\ race' = [race EXCEPT !.thr[i].pc = "rh_delay"]
    /\ UNCHANGED <<now, raceFrame>>

\* register_rate_limit_hit: the assignment of exponential_delay, and the
\* return; get_recommended_delay follows and calls can_send_message
r_hit_delay(i) ==
    /\ race.thr[i].pc = "rh_delay"
    /\ rl' = [rl EXCEPT !.exponential_delay = Min(max_delay, @ * 2)]
    /\ race' = [race EXCEPT !.thr[i].pc = "cs_read", !.thr[i].phase = "delay",
                            !.done_hits = @ + 1]
    /\ UNCHANGED <<now, raceFrame>>

NextRace ==
    \/ RaceTick
    \/ \E i \in DOMAIN race.thr : r_can_send_read(i)
    \/ \E i \in DOMAIN race.thr : r_can_send_assign(i)
    \/ \E i \in DOMAIN race.thr : r_can_send_decide(i)
    \/ \E i \in DOMAIN race.thr : r_sent_append(i)
    \/ \E i \in DOMAIN race.thr : r_sent_load(i)
    \/ \E i \in DOMAIN race.thr : r_sent_store(i)
    \/ \E i \in DOMAIN race.thr : r_sent_delay(i)
    \/ \E i \in DOMAIN race.thr : r_hit_load(i)
    \/ \E i \in DOMAIN race.thr : r_hit_store(i)
    \/ \E i \in DOMAIN race.thr : r_hit_delay(i)

SpecRace == InitRace /\ [][NextRace]_vars

(***************************************************************************)
(* What the history variables say about the messages sent.                 *)
(***************************************************************************)
SentMsgs == { sent_log[k].msg : k \in DOMAIN sent_log }

\* the messages of the sequence `of` that thread i has sent, in sending order
RECURSIVE SentBy(_, _, _)
SentBy(i, of, k) ==
    IF k > Len(sent_log) THEN <<>>
    ELSE IF sent_log[k].thread = i /\ \E j \in DOMAIN of : of[j] = sent_log[k].msg
         THEN <<sent_log[k].msg>> \o SentBy(i, of, k + 1)
         ELSE SentBy(i, of, k + 1)

(***************************************************************************)
(* C1: a message for which can_send_message() is false is not passed over: *)
(* the loop waits and re-checks it, so a batch worker that ran to the end  *)
(* of its list without being stopped has sent every message of the batch,  *)
(* in order, and each is counted in analytics_data.sent.                   *)
(***************************************************************************)
C1_RateLimitedMessageIsRetried ==
    \A i \in DOMAIN threads :
        (threads[i].kind = "batch" /\ threads[i].pc = "done" /\ ~threads[i].broke)
            => /\ SentBy(i, threads[i].messages, 1) = threads[i].messages
               /\ analytics_data.sent >= Len(threads[i].messages)

(***************************************************************************)
(* C4: from a state where queue_paused is true no step sends a message:    *)
(* analytics_data.sent and the limiter's total_processed stay as they are. *)
(***************************************************************************)
C4_PausedQueueSendsNothing ==
    [][ queue_paused =>
            /\ analytics_data'.sent = analytics_data.sent
            /\ rl'.total_processed = rl.total_processed
            /\ sent_log' = sent_log ]_vars

(***************************************************************************)
(* C5: once the queue has been paused and resumed, a batch worker that ran *)
(* to the end without being stopped has delivered exactly the messages it  *)
(* held at the pause, each once and in their original order.               *)
(***************************************************************************)
C5_PauseResumeDeliversPending ==
    hist.pause_state = "resumed" =>
        \A i \in DOMAIN hist.paused_pending :
            (threads[i].pc = "done" /\ ~threads[i].broke)
                => SentBy(i, hist.paused_pending[i], 1) = hist.paused_pending[i]

(***************************************************************************)
(* C6: after cancel_queue no step sets is_sending again, and the only      *)
(* messages sent are those of threads that were in flight at the cancel.   *)
(***************************************************************************)
C6_CancelledIsTerminal ==
    [][ hist.cancelled =>
            /\ is_sending' = FALSE
            /\ sent_log' /= sent_log =>
                   Last(sent_log').thread \in hist.inflight_at_cancel ]_vars

(***************************************************************************)
(* C7: a scheduled message whose entry was cleared before its timer fired  *)
(* is never handed to send_messages: its timer stays unfired.              *)
(***************************************************************************)
C7_ClearedTimerNeverFires ==
    \A i \in DOMAIN threads : threads[i].cleared => threads[i].pc = "armed"

(***************************************************************************)
(* C8: a scheduled message that was not cleared has, once its timer's      *)
(* send_messages call has returned, been sent, whether or not a batch was  *)
(* being sent when the timer fired.                                        *)
(***************************************************************************)
C8_FiredTimerMessageIsSent ==
    \A i \in DOMAIN threads :
        (threads[i].kind = "timer" /\ threads[i].pc = "done" /\ ~threads[i].cleared)
            => threads[i].messages[1] \in SentMsgs

(***************************************************************************)
(* C2: can_send_message() at time `at` on history h answers false exactly  *)
(* when at least burst_threshold entries of h are younger than             *)
(* burst_window, or h is non-empty and its newest entry is younger than    *)
(* rate_limit; an age equal to burst_window or to rate_limit does not      *)
(* count.                                                                  *)
(***************************************************************************)
C2_CanSendIffLimits ==
    last_call.op = "can_send_message" =>
        LET h == last_call.before.message_history
            t == last_call.at
            burst == Cardinality({ i \in DOMAIN h : t - h[i] < burst_window })
                        >= burst_threshold
            tooSoon == h /= <<>> /\ t - h[Len(h)] < rate_limit
        IN  (last_call.result = FALSE) <=> (burst \/ tooSoon)

\* a full burst whose entries are exactly burst_window old is let through
C2_Witness ==
    /\ last_call.op = "can_send_message"
    /\ Len(last_call.before.message_history) >= burst_threshold
    /\ \E i \in DOMAIN last_call.before.message_history :
            last_call.at - last_call.before.message_history[i] = burst_window
    /\ last_call.result = TRUE

(***************************************************************************)
(* C3: after any sequence of register_message_sent and                     *)
(* register_rate_limit_hit calls, exponential_delay lies between           *)
(* rate_limit and max_delay.                                               *)
(***************************************************************************)
C3_BackoffWithinBounds ==
    /\ rl.exponential_delay >= rate_limit
    /\ rl.exponential_delay <= max_delay

\* the upper clamp has acted after sends and hits were mixed
C3_Witness ==
    /\ rl.exponential_delay = max_delay
    /\ rl.total_processed >= 1
    /\ rl.rate_limit_hits >= MaxBackoffHits

\* the step is a call of an HH:MM scheduler that was given a text as the time
ScheduleCall == sched_calls' = sched_calls + 1 /\ last_sched'.answered

\* C9: for every current date and time, the last day of a month included, and
\* every valid HH:MM entered with a message typed, when the entered time of
\* day is not later than now, the call appends the message to
\* scheduled_messages with the same time of day on the next calendar day, that
\* fire time is strictly later than now, and no error is reported.
C9_PastTimeIsNormalizedToNextDay ==
    [][ ( /\ ScheduleCall
          /\ message_entry \notin { <<>>, Placeholder }
          /\ Meaning(last_sched'.time_str).ok
          /\ ~DtLess(wall, AtTime(wall, Meaning(last_sched'.time_str).hour,
                                        Meaning(last_sched'.time_str).minute)) )
        => LET means == Meaning(last_sched'.time_str)
               fire == PlusOneDay(AtTime(wall, means.hour, means.minute))
           IN  /\ scheduled_messages' =
                      Append(scheduled_messages,
                             [ send_time |-> fire, msg |-> message_entry ])
               /\ DtLess(wall, fire)
               /\ status' /= "Invalid time format."
               /\ last_sched'.showerror = "" ]_vars

C11_RetriesAreBoundedAndExact ==
    tx.max_attempts >= 1 =>
        LET failed == \A k \in DOMAIN tx.outcomes : tx.outcomes[k] /= "completed"
        IN  /\ tx.attempt <= tx.max_attempts
            /\ Len(tx.outcomes) <= tx.max_attempts
            /\ \A k \in DOMAIN tx.outcomes :
                   tx.outcomes[k] = "completed" =>
                       k = Len(tx.outcomes) /\ tx.pc = "returned" /\ tx.result = "True"
            /\ (tx.pc = "returned" /\ failed) =>
                   Len(tx.outcomes) = tx.max_attempts /\ tx.result = "False"
            /\ tx.result = "True" => ~failed

\* three attempts that all failed, one of them on a refused focus and one on a
\* keystroke, and the call has returned False
C11_Witness ==
    /\ tx.max_attempts = MaxAttempts
    /\ tx.pc = "returned"
    /\ tx.result = "False"
    /\ Len(tx.outcomes) = MaxAttempts
    /\ \E j, k \in DOMAIN tx.outcomes :
          tx.outcomes[j] = "refused" /\ tx.outcomes[k] = "raised"

\* C12: when the sending of one message of a batch fails, the failure is
\* counted in the errors metric and the loop goes on to the next message of the
\* batch (zzdiscord_auto_gui.py).
C12_FailureDoesNotHaltTheLoop ==
    [][ ( /\ Len(zz'.attempts) = Len(zz.attempts) + 1
          /\ zz'.attempts[Len(zz'.attempts)] = "failed" )
        => /\ zz'.errors = zz.errors + 1
           /\ zz'.pc = "for"
           /\ zz'.idx = zz.idx + 1 ]_vars

\* C13: of a batch of burst_threshold + 1 messages handed over together, the
\* last one is not sent while burst_threshold sends lie within burst_window of
\* now, and it is sent afterwards: a worker that went through the batch
\* without being stopped has sent it.
C13_BurstOverflowIsSentLater ==
    [][ \A i \in DOMAIN threads :
          (threads[i].kind = "batch" /\ Len(threads[i].messages) = BurstBatch) =>
              LET last == threads[i].messages[BurstBatch]
                  recent == { k \in DOMAIN rl.message_history :
                                 now - rl.message_history[k] < burst_window }
              IN  /\ (last \notin SentMsgs /\ last \in SentMsgs')
                         => Cardinality(recent) < burst_threshold
                  /\ (threads'[i].pc = "done" /\ ~threads'[i].broke)
                         => last \in SentMsgs' ]_vars

\* C14: get_queue_status leaves total_processed, rate_limit_hits and
\* exponential_delay as they were, and a second call at the same time returns
\* the same snapshot as the first.
C14_StatusIsReadOnly ==
    last_call.op = "get_queue_status" =>
        /\ rl.total_processed = last_call.before.total_processed
        /\ rl.rate_limit_hits = last_call.before.rate_limit_hits
        /\ rl.exponential_delay = last_call.before.exponential_delay
        /\ get_queue_status(rl, last_call.at).result = last_call.result

\* a status call during a burst that pruned an old entry of the history, after
\* sends and a hit
C14_Witness ==
    /\ last_call.op = "get_queue_status"
    /\ last_call.result.can_send = FALSE
    /\ last_call.result.recent_messages >= burst_threshold
    /\ Len(rl.message_history) < Len(last_call.before.message_history)
    /\ rl.rate_limit_hits >= 1

\* the limits, read off a history h at time t: fewer than burst_threshold
\* entries younger than burst_window, and the newest at least rate_limit old
LimitsAllow(h, t) ==
    /\ Cardinality({ i \in DOMAIN h : t - h[i] < burst_window }) < burst_threshold
    /\ h = <<>> \/ t - h[Len(h)] >= rate_limit

\* C16: get_recommended_delay returns exponential_delay when the limits do not
\* allow a send at that time, and max(rate_limit, 0.1) otherwise.
C16_RecommendedDelay ==
    last_call.op = "get_recommended_delay" =>
        last_call.result =
            IF ~LimitsAllow(last_call.before.message_history, last_call.at)
            THEN last_call.before.exponential_delay
            ELSE Max(rate_limit, min_recommended_delay)

\* both cases with a backoff that differs from rate_limit: the call answered
\* the doubled backoff during a burst
C16_Witness ==
    /\ last_call.op = "get_recommended_delay"
    /\ ~LimitsAllow(last_call.before.message_history, last_call.at)
    /\ last_call.before.rate_limit_hits >= 1
    /\ last_call.result > initial_exponential_delay

\* C17: register_message_sent appends the current time to message_history,
\* adds 1 to total_processed and sets exponential_delay to
\* max(rate_limit, exponential_delay * 0.9); register_rate_limit_hit adds 1 to
\* rate_limit_hits and sets exponential_delay to
\* min(max_delay, exponential_delay * 2.0); no other call of the limiter
\* changes exponential_delay.
C17_RegisterEffects ==
    [][ /\ last_call'.op = "register_message_sent" =>
              /\ rl'.message_history = Append(rl.message_history, now)
              /\ rl'.total_processed = rl.total_processed + 1
              /\ rl'.rate_limit_hits = rl.rate_limit_hits
              /\ rl'.exponential_delay =
                     Max(rate_limit, (rl.exponential_delay * 9) \div 10)
        /\ last_call'.op = "register_rate_limit_hit" =>
              /\ rl'.rate_limit_hits = rl.rate_limit_hits + 1
              /\ rl'.total_processed = rl.total_processed
              /\ rl'.message_history = rl.message_history
              /\ rl'.exponential_delay = Min(max_delay, rl.exponential_delay * 2)
        /\ rl'.exponential_delay /= rl.exponential_delay =>
              last_call'.op \in { "register_message_sent", "register_rate_limit_hit" }
      ]_<<rl, last_call>>

\* after a registered send lowered the backoff, a hit doubled it past
\* max_delay and was clamped
C17_Witness ==
    /\ last_call.op = "register_rate_limit_hit"
    /\ rl.total_processed >= 1
    /\ last_call.before.exponential_delay < max_delay
    /\ last_call.before.exponential_delay * 2 > max_delay
    /\ rl.exponential_delay = max_delay

\* C18: can_send_message changes no field of the limiter other than
\* message_history, and a second call at the same time gives the same result
\* and the same message_history as the first.
C18_CanSendIsPureQuery ==
    last_call.op = "can_send_message" =>
        /\ rl = [last_call.before EXCEPT !.message_history = rl.message_history]
        /\ can_send_message(rl, last_call.at).result = last_call.result
        /\ can_send_message(rl, last_call.at).limiter.message_history
               = rl.message_history

\* C15: messages are sent in the order in which they were handed to the send
\* path, from a batch or from a timer. A batch is handed over when
\* start_sending is called and the message of a timer when the timer fires, so
\* the messages of a batch were handed over before the message of every thread
\* started after it, and within a batch in list order: no message of a later
\* thread is sent before a message of an earlier batch that is also sent, and
\* the messages of one thread are sent in list order.
C15_SentInHandingOrder ==
    \A p, q \in DOMAIN sent_log :
        p < q =>
            /\ ~( /\ threads[sent_log[q].thread].kind = "batch"
                  /\ sent_log[p].thread > sent_log[q].thread )
            /\ sent_log[p].thread = sent_log[q].thread
                   => sent_log[p].msg < sent_log[q].msg

\* C19: register_message_sent is called exactly once for each message sent,
\* and a false can_send_message() by itself, with no send attempted, changes
\* neither rate_limit_hits, nor exponential_delay, nor the errors metric: the
\* step a worker takes after a false answer leaves the three as they were.
C19_FalseCheckCountsNothing ==
    [][ /\ rl'.total_processed - rl.total_processed = Len(sent_log') - Len(sent_log)
        /\ \A i \in DOMAIN threads :
              (threads[i].pc = "limited" /\ threads'[i].pc /= "limited") =>
                  /\ rl'.rate_limit_hits = rl.rate_limit_hits
                  /\ rl'.exponential_delay = rl.exponential_delay
                  /\ analytics_data'.errors = analytics_data.errors ]_vars

\* C20: the calls of the limiter by concurrent threads lose no update: once
\* every thread has left the limiter, total_processed is the number of
\* completed register_message_sent calls, rate_limit_hits the number of
\* completed register_rate_limit_hit calls, and message_history holds every
\* registered timestamp (all are younger than burst_window).
C20_NoLimiterUpdateIsLost ==
    (race.thr /= <<>> /\ \A i \in DOMAIN race.thr : race.thr[i].pc = "done") =>
        /\ rl.total_processed = race.done_sent
        /\ rl.rate_limit_hits = race.done_hits
        /\ Len(rl.message_history) = race.done_sent

\* C21: every failed attempt of send_message_advanced, whether the focus was
\* refused or a keyboard call raised, is logged and followed by the pause of
\* one second before the next attempt starts.
C21_FailedAttemptIsLoggedAndPaused ==
    [][ ( /\ Len(tx'.outcomes) = Len(tx.outcomes) + 1
          /\ tx'.outcomes[Len(tx'.outcomes)] \in { "refused", "raised" } )
        => /\ tx'.logged = tx.logged + 1
           /\ tx'.pauses = tx.pauses + 1 ]_vars

\* C22: once the queue has been cancelled while send_message_advanced is
\* running, the attempt in flight runs to its end and no further attempt is
\* started.
C22_NoAttemptStartsAfterCancel ==
    [][ tx.cancelled => tx'.attempt = tx.attempt ]_vars

\* a character of the message, not the letter of a simulated mistake
IsPayloadChar(c) == c /= 0

\* C30: whenever send_message_advanced returns True, enter was pressed exactly
\* once and the characters of the message left in the target before it,
\* simulated mistakes aside, are exactly the message in order, even when an
\* earlier attempt failed after typing part of it.
C30_SuccessTypedExactlyThePayload ==
    tx.result = "True" =>
        /\ tx.enters = 1
        /\ SelectSeq(tx.target, IsPayloadChar) = [ k \in 1..tx.message |-> k ]

\* the calls of the limiter that ask and register nothing
LimiterQueries == { "can_send_message", "get_recommended_delay", "get_queue_status" }

C24_CountersOnlyGrowInTheLoop ==
    [][ /\ rl'.total_processed >= rl.total_processed
        /\ rl'.rate_limit_hits >= rl.rate_limit_hits
        /\ analytics_data'.sent >= analytics_data.sent
        /\ analytics_data'.errors >= analytics_data.errors
        /\ ( \/ rl'.total_processed /= rl.total_processed
             \/ rl'.rate_limit_hits /= rl.rate_limit_hits
             \/ analytics_data' /= analytics_data )
           => \E i \in DOMAIN threads :
                 threads[i].pc \in { "send", "limited" } /\ threads'[i].pc = "sleep"
      ]_vars

\* C25: with the batch thread and the timer threads each calling
\* can_send_message and then register_message_sent, no interval of length
\* burst_window holds more than burst_threshold registered sends.
C25_BurstCapHoldsForSends ==
    LET h == rl.message_history
    IN  \A i \in DOMAIN h :
            Cardinality({ j \in DOMAIN h : h[i] <= h[j] /\ h[j] < h[i] + burst_window })
                <= burst_threshold

\* C26: a timer that fires while a batch is being sent does not stop the
\* batch: when the timer's call send_messages([msg], 0) has gone through its
\* message and returns while the batch worker is in its loop, is_sending is
\* still true afterwards.
C26_TimerDoesNotStopBatch ==
    [][ \A i, j \in DOMAIN threads :
          ( /\ threads[i].kind = "timer" /\ ~threads[i].broke
            /\ threads[i].pc = "exit" /\ threads'[i].pc = "done"
            /\ threads[j].kind = "batch"
            /\ threads[j].pc \notin { "exit", "done" }
            /\ is_sending )
          => is_sending' ]_vars

\* C27: at most one batch worker started by start_sending is active at any
\* time: no two of them are past the is_sending test of the loop, dispatching
\* a message, at once.
C27_OneBatchWorker ==
    Cardinality({ i \in DOMAIN threads :
                    /\ threads[i].kind = "batch"
                    /\ threads[i].pc \in { "check", "send", "limited" } }) <= 1

\* C28: when two scheduled messages reach their fire time together, each
\* payload is sent exactly once: once every thread has ended, each of the two
\* different lines scheduled was sent exactly as often as it was scheduled.
C28_EachPayloadSentOnce ==
    ( /\ Len(scheduled_messages) = MaxFireCalls
      /\ { scheduled_messages[k].msg : k \in DOMAIN scheduled_messages } = FireTexts
      /\ \A i \in DOMAIN threads : threads[i].pc = "done" )
    => \A text \in FireTexts :
          Cardinality({ k \in DOMAIN sent_log : <<sent_log[k].msg>> = text })
              = Cardinality({ k \in DOMAIN scheduled_messages :
                                scheduled_messages[k].msg = text })

\* C29: after stop_sending has returned, with no start_sending after it, a
\* batch worker sends at most the one message it had begun, it ends with
\* is_sending false, and it goes through its loop at most len(messages) times
\* (src/main.py and zzdiscord_auto_gui.py).
C29_StopTakesEffectWithinOneMessage ==
    /\ \A i \in DOMAIN threads : threads[i].idx <= Len(threads[i].messages) + 1
    /\ zz.idx <= zz.messages + 1
    /\ (hist.stopped /\ variant = "main") =>
           \A i \in DOMAIN threads :
               threads[i].kind = "batch" =>
                   /\ Cardinality({ k \in DOMAIN sent_log :
                                      /\ k > hist.sent_at_stop
                                      /\ sent_log[k].thread = i }) <= 1
                   /\ threads[i].pc = "done" => ~is_sending
    /\ (hist.stopped /\ variant = "zzdiscord_auto_gui.py") =>
           /\ zz.sent <= hist.sent_at_stop + 1
           /\ zz.pc = "done" => ~zz.is_sending

\* in both programs a worker stopped between its loop test and its send has
\* sent that one message, left the loop with a message still to go, and ended
C29_Witness ==
    /\ hist.stopped
    /\ \/ \E i \in DOMAIN threads :
             /\ threads[i].kind = "batch"
             /\ threads[i].pc = "done"
             /\ threads[i].broke
             /\ threads[i].idx <= Len(threads[i].messages)
             /\ \E k \in DOMAIN sent_log :
                   k > hist.sent_at_stop /\ sent_log[k].thread = i
       \/ /\ variant = "zzdiscord_auto_gui.py"
          /\ zz.pc = "done"
          /\ zz.idx <= zz.messages
          /\ zz.sent = hist.sent_at_stop + 1

====
